---------------------------- MODULE Spec2Model ----------------------------
(* Model of src/src/components/ReportGenerator.tsx: the ReportGenerator     *)
(* component's local state (uploadState, isProcessing, isComplete), its     *)
(* event handlers, the pending setTimeout callbacks and the toast sink.     *)
(* Every handler runs to completion on the UI event loop and React renders  *)
(* between two events, so one handler is one atomic step and the render     *)
(* (button rendered / disabled) is a function of the current state.         *)
EXTENDS Integers, Sequences, FiniteSets, TLC

\* ----------------------------------------------------------------- bounds
\* upload events carrying a file that one run records
MaxUploads == 3
\* longest file list a drop or selection event carries
MaxFileList == 2
\* direct handler invocations stop once the sink holds this many toasts
MaxToasts == 3
\* direct handler invocations stop once this many timers are pending
MaxTimers == 1

\* ------------------------------------------------------------- constants
\* setTimeout delay of handleGenerate, in seconds (3000 ms)
Delay == 3

\* the two upload slots: type: 'template' | 'excel'
Types == {"template", "excel"}

\* File | null: the empty slot / the undefined first item of an empty list
Null == [id |-> 0, name |-> ""]

\* File objects the user can present
Files ==
  { [id |-> 1, name |-> "report.docx"],
    [id |-> 2, name |-> "scores.xlsx"] }

\* e.dataTransfer.files / e.target.files: a list of zero or more files
FileLists == UNION { [1..n -> Files] : n \in 0..MaxFileList }

VARIABLES
  uploadState,   \* useState<UploadState>: [template, excel], File or Null
  isProcessing,  \* useState(false)
  isComplete,    \* useState(false)
  timers,        \* pending setTimeout callbacks, oldest first: seconds left
  toasts,        \* every toast() call so far, in order (the notification sink)
  uploads,       \* history: the upload events that carried a file, in order
  lastEvent      \* history: the event whose handler ran last

vars == <<uploadState, isProcessing, isComplete, timers, toasts, uploads, lastEvent>>

\* ----------------------------------------------------------------- toasts
UploadToast(file) ==
  [ title |-> "File uploaded successfully",
    description |-> file.name \o " has been uploaded.",
    variant |-> "default" ]

MissingFilesToast ==
  [ title |-> "Missing files",
    description |-> "Please upload both template and Excel files.",
    variant |-> "destructive" ]

SuccessToast ==
  [ title |-> "Reports generated successfully!",
    description |-> "All student reports have been created and are ready for download.",
    variant |-> "default" ]

\* ----------------------------------------------------------------- render
\* ProcessingStatus as the render reads the two flags
Status ==
  IF isComplete THEN "Complete"
  ELSE IF isProcessing THEN "Processing"
  ELSE "Idle"

\* variant: the button stays rendered after completion
ButtonRendered_Always == TRUE

\* {!isComplete ? <Button onClick={handleGenerate} .../> : ...}
ButtonRendered == ~isComplete

\* variant: the disabled expression forgets isProcessing
ButtonDisabled_NoProcessing ==
  \/ uploadState.template = Null
  \/ uploadState.excel = Null

\* variant: the disabled expression forgets the excel slot
ButtonDisabled_NoExcel ==
  \/ uploadState.template = Null
  \/ isProcessing

\* disabled={!uploadState.template || !uploadState.excel || isProcessing}
ButtonDisabled ==
  \/ uploadState.template = Null
  \/ uploadState.excel = Null
  \/ isProcessing

\* the action control can be clicked: it is rendered and not disabled
ButtonEnabled == ButtonRendered /\ ~ButtonDisabled

\* the completion panel with the two download buttons
CompletionRendered == isComplete

\* --------------------------------------------------------------- handlers
\* variant: a filled slot keeps its first file
handleFileUpload_KeepFirst(type, file) ==
  /\ uploadState' =
       IF uploadState[type] = Null
       THEN [uploadState EXCEPT ![type] = file]
       ELSE uploadState
  /\ toasts' = Append(toasts, UploadToast(file))
  /\ UNCHANGED <<isProcessing, isComplete, timers>>

\* variant: a new upload resets the status flags
handleFileUpload_ResetStatus(type, file) ==
  /\ uploadState' = [uploadState EXCEPT ![type] = file]
  /\ toasts' = Append(toasts, UploadToast(file))
  /\ isProcessing' = FALSE
  /\ isComplete' = FALSE
  /\ UNCHANGED timers

\* variant: the update drops ...prev, so the other slot is lost
handleFileUpload_DropPrev(type, file) ==
  /\ uploadState' = [t \in Types |-> IF t = type THEN file ELSE Null]
  /\ toasts' = Append(toasts, UploadToast(file))
  /\ UNCHANGED <<isProcessing, isComplete, timers>>

\* variant: a new upload clears the pending timeout
handleFileUpload_ClearTimeout(type, file) ==
  /\ uploadState' = [uploadState EXCEPT ![type] = file]
  /\ toasts' = Append(toasts, UploadToast(file))
  /\ timers' = <<>>
  /\ UNCHANGED <<isProcessing, isComplete>>

handleFileUpload(type, file) ==
  /\ uploadState' = [uploadState EXCEPT ![type] = file]
  /\ toasts' = Append(toasts, UploadToast(file))
  /\ UNCHANGED <<isProcessing, isComplete, timers>>

\* variant: the last item of the list is taken instead of the first
FirstFile_Last(files) == IF Len(files) > 0 THEN files[Len(files)] ELSE Null

\* files[0]: the first item of the list, undefined when the list is empty
FirstFile(files) == IF Len(files) > 0 THEN files[1] ELSE Null

onDrop(type, files) ==
  LET droppedFile == FirstFile(files) IN
  IF droppedFile # Null
  THEN handleFileUpload(type, droppedFile)
  ELSE UNCHANGED <<uploadState, isProcessing, isComplete, timers, toasts>>

onChange(type, files) ==
  LET selectedFile == FirstFile(files) IN
  IF selectedFile # Null
  THEN handleFileUpload(type, selectedFile)
  ELSE UNCHANGED <<uploadState, isProcessing, isComplete, timers, toasts>>

\* variant: the guard uses && and fails only when both slots are empty
handleGenerate_BothMissing ==
  IF uploadState.template = Null /\ uploadState.excel = Null
  THEN /\ toasts' = Append(toasts, MissingFilesToast)
       /\ UNCHANGED <<uploadState, isProcessing, isComplete, timers>>
  ELSE /\ isProcessing' = TRUE
       /\ timers' = Append(timers, Delay)
       /\ UNCHANGED <<uploadState, isComplete, toasts>>

\* variant: the success toast is emitted on starting, not on completing
handleGenerate_ToastOnStart ==
  IF uploadState.template = Null \/ uploadState.excel = Null
  THEN /\ toasts' = Append(toasts, MissingFilesToast)
       /\ UNCHANGED <<uploadState, isProcessing, isComplete, timers>>
  ELSE /\ isProcessing' = TRUE
       /\ timers' = Append(timers, Delay)
       /\ toasts' = Append(toasts, SuccessToast)
       /\ UNCHANGED <<uploadState, isComplete>>

handleGenerate ==
  IF uploadState.template = Null \/ uploadState.excel = Null
  THEN /\ toasts' = Append(toasts, MissingFilesToast)
       /\ UNCHANGED <<uploadState, isProcessing, isComplete, timers>>
  ELSE /\ isProcessing' = TRUE
       /\ timers' = Append(timers, Delay)
       /\ UNCHANGED <<uploadState, isComplete, toasts>>

\* variant: the callback forgets setIsProcessing(false)
timeoutCallback_KeepProcessing ==
  /\ isComplete' = TRUE
  /\ toasts' = Append(toasts, SuccessToast)
  /\ UNCHANGED <<uploadState, isProcessing>>

\* the callback handed to setTimeout
timeoutCallback ==
  /\ isProcessing' = FALSE
  /\ isComplete' = TRUE
  /\ toasts' = Append(toasts, SuccessToast)
  /\ UNCHANGED uploadState

\* variant: a download button is wired to a toast
downloadClick_Toast ==
  /\ toasts' = Append(toasts, SuccessToast)
  /\ UNCHANGED <<uploadState, isProcessing, isComplete, timers>>

\* the download buttons have no onClick
downloadClick ==
  UNCHANGED <<uploadState, isProcessing, isComplete, timers, toasts>>

\* ------------------------------------------------------------------ steps
Event(kind, type, files) == [kind |-> kind, type |-> type, files |-> files]

Recorded(type, files) ==
  IF files # <<>>
  THEN Append(uploads, [type |-> type, file |-> files[1]])
  ELSE uploads

Init ==
  /\ uploadState = [template |-> Null, excel |-> Null]
  /\ isProcessing = FALSE
  /\ isComplete = FALSE
  /\ timers = <<>>
  /\ toasts = <<>>
  /\ uploads = <<>>
  /\ lastEvent = Event("mount", "none", <<>>)

Drop ==
  \E type \in Types, files \in FileLists :
    /\ Len(uploads) < MaxUploads
    /\ onDrop(type, files)
    /\ uploads' = Recorded(type, files)
    /\ lastEvent' = Event("drop", type, files)

Select ==
  \E type \in Types, files \in FileLists :
    /\ Len(uploads) < MaxUploads
    /\ onChange(type, files)
    /\ uploads' = Recorded(type, files)
    /\ lastEvent' = Event("select", type, files)

\* a click reaches onClick only on a rendered button that is not disabled
GenerateClick ==
  /\ ButtonEnabled
  /\ handleGenerate
  /\ UNCHANGED uploads
  /\ lastEvent' = Event("click", "none", <<>>)

\* handleGenerate called without going through the button
GenerateInvoke ==
  /\ Len(toasts) < MaxToasts
  /\ Len(timers) < MaxTimers
  /\ handleGenerate
  /\ UNCHANGED uploads
  /\ lastEvent' = Event("invoke", "none", <<>>)

\* time passes while no pending timer is due
Tick ==
  /\ timers # <<>>
  /\ \A i \in 1..Len(timers) : timers[i] > 0
  /\ timers' = [i \in 1..Len(timers) |-> timers[i] - 1]
  /\ UNCHANGED <<uploadState, isProcessing, isComplete, toasts, uploads>>
  /\ lastEvent' = Event("tick", "none", <<>>)

\* the oldest pending timer is due and its callback runs
TimerFire ==
  /\ timers # <<>>
  /\ Head(timers) = 0
  /\ timeoutCallback
  /\ timers' = Tail(timers)
  /\ UNCHANGED uploads
  /\ lastEvent' = Event("timeout", "none", <<>>)

DownloadIndividual ==
  /\ CompletionRendered
  /\ downloadClick
  /\ UNCHANGED uploads
  /\ lastEvent' = Event("downloadIndividual", "none", <<>>)

DownloadAll ==
  /\ CompletionRendered
  /\ downloadClick
  /\ UNCHANGED uploads
  /\ lastEvent' = Event("downloadAll", "none", <<>>)

\* the component driven through its rendered controls only
Next ==
  \/ Drop
  \/ Select
  \/ GenerateClick
  \/ Tick
  \/ TimerFire
  \/ DownloadIndividual
  \/ DownloadAll

Spec == Init /\ [][Next]_vars

\* the same, with handleGenerate also callable directly
NextHandler == Next \/ GenerateInvoke

SpecHandler == Init /\ [][NextHandler]_vars

\* time passes and a due timer callback is run by the event loop
FairSpec == Spec /\ WF_vars(Tick) /\ WF_vars(TimerFire)

\* ----------------------------------------------------------------- claims
Present(type) == uploadState[type] # Null

BothPresent == Present("template") /\ Present("excel")

UploadKinds == {"drop", "select"}

\* the step just taken was an upload event that carried a file
UploadStep == lastEvent'.kind \in UploadKinds /\ lastEvent'.files # <<>>

NumSuccess(ts) == Cardinality({i \in 1..Len(ts) : ts[i] = SuccessToast})

NumFailure(ts) == Cardinality({i \in 1..Len(ts) : ts[i].variant = "destructive"})

UploadsOf(type) == {i \in 1..Len(uploads) : uploads[i].type = type}

Latest(S) == CHOOSE i \in S : \A j \in S : j <= i

\* the file of the most recent recorded upload event for the slot, if any
LastUploaded(type) ==
  IF UploadsOf(type) = {} THEN Null ELSE uploads[Latest(UploadsOf(type))].file

\* C1: after any sequence of upload events, by drop or by selection, each
\* slot holds the file of the most recent upload event for that slot, and is
\* empty exactly when no upload event for that slot has occurred.
C1_LastWriteWins ==
  \A type \in Types :
    /\ uploadState[type] = LastUploaded(type)
    /\ (uploadState[type] = Null) <=> (UploadsOf(type) = {})

\* a selection replaced the file an earlier event had put in the same slot
C1_Witness ==
  /\ Len(uploads) = 3
  /\ lastEvent.kind = "select"
  /\ uploads[1].type = uploads[3].type
  /\ uploads[1].file # uploads[3].file
  /\ uploads[2].type # uploads[3].type
  /\ uploadState[uploads[3].type] = uploads[3].file

\* C2 as stated: the action control is enabled exactly when both slots are
\* filled and status is not Processing, in every reachable state.
C2_Original ==
  ButtonEnabled <=> (BothPresent /\ Status # "Processing")

\* C2 amended: while the action control is rendered (status is not
\* Complete) it is enabled exactly when both slots are filled and status is
\* not Processing; in status Complete it is not rendered, so not enabled.
C2_Enablement ==
  /\ Status # "Complete" =>
       (ButtonEnabled <=> (BothPresent /\ Status # "Processing"))
  /\ Status = "Complete" => ~ButtonEnabled

\* both slots filled, generation complete, and no action control to click
C2_Witness ==
  /\ Status = "Complete"
  /\ BothPresent
  /\ ~ButtonEnabled

\* the step just taken ran handleGenerate
GenerateStep == lastEvent'.kind \in {"click", "invoke"}

\* C3: whenever handleGenerate runs with at least one slot empty, status,
\* upload state and pending timers are unchanged and exactly one destructive
\* "Missing files" toast is emitted by that run.
C3_MissingFiles ==
  [][ (GenerateStep /\ ~BothPresent) =>
        /\ UNCHANGED <<uploadState, isProcessing, isComplete, timers>>
        /\ Status' = Status
        /\ toasts' = Append(toasts, MissingFilesToast)
        /\ MissingFilesToast.variant = "destructive"
        /\ NumFailure(toasts') = NumFailure(toasts) + 1 ]_vars

\* handleGenerate ran with the template present and the excel slot empty
C3_Witness ==
  /\ lastEvent.kind = "invoke"
  /\ Present("template")
  /\ ~Present("excel")
  /\ toasts # <<>>
  /\ toasts[Len(toasts)] = MissingFilesToast
  /\ Status = "Idle"
  /\ timers = <<>>

\* C4: generation invoked with both slots filled in status Idle enters
\* Processing in that step with no toast; the timer step moves Processing to
\* Complete and emits exactly one success toast; no other step emits it.
C4_GenerateThenComplete ==
  [][ /\ (GenerateStep /\ BothPresent /\ Status = "Idle") =>
           /\ Status' = "Processing"
           /\ toasts' = toasts
           /\ timers' = Append(timers, Delay)
      /\ (lastEvent'.kind = "timeout") =>
           /\ Status = "Processing"
           /\ Status' = "Complete"
           /\ toasts' = Append(toasts, SuccessToast)
           /\ NumSuccess(toasts') = NumSuccess(toasts) + 1
      /\ (lastEvent'.kind # "timeout") =>
           NumSuccess(toasts') = NumSuccess(toasts) ]_vars

\* the timer fired after a click: Complete, with the success toast last
C4_Witness ==
  /\ lastEvent.kind = "timeout"
  /\ Status = "Complete"
  /\ toasts[Len(toasts)] = SuccessToast
  /\ NumSuccess(toasts) = 1

\* C5: status changes only by Idle -> Processing and Processing -> Complete;
\* an upload event leaves the status unchanged in every status, and Complete
\* is never left.
C5_Monotonic ==
  [][ /\ Status' # Status =>
           \/ (Status = "Idle" /\ Status' = "Processing")
           \/ (Status = "Processing" /\ Status' = "Complete")
      /\ UploadStep => Status' = Status
      /\ Status = "Complete" => Status' = "Complete" ]_vars

\* a file was uploaded after completion and the status is still Complete
C5_Witness ==
  /\ Status = "Complete"
  /\ lastEvent.kind \in UploadKinds
  /\ lastEvent.files # <<>>

\* C6: with generation invoked only through the enabled action control, at
\* most one timer is pending in every reachable state, and one is pending
\* exactly while status is Processing.
C6_OneTimer ==
  /\ Len(timers) <= 1
  /\ (Len(timers) = 1) <=> (Status = "Processing")

\* a file was dropped while the one timer was pending
C6_Witness ==
  /\ Len(timers) = 1
  /\ Status = "Processing"
  /\ lastEvent.kind = "drop"
  /\ lastEvent.files # <<>>

DownloadKinds == {"downloadIndividual", "downloadAll"}

\* C7: once status is Complete the action control is not available and the
\* completion actions are; invoking a completion action leaves upload state
\* and status unchanged, starts no timer and emits no toast.
C7_CompletionPanel ==
  /\ [](Status = "Complete" =>
          /\ ~ButtonRendered
          /\ ~ButtonEnabled
          /\ ~ENABLED GenerateClick
          /\ CompletionRendered
          /\ ENABLED DownloadIndividual
          /\ ENABLED DownloadAll)
  /\ [][ lastEvent'.kind \in DownloadKinds =>
           /\ UNCHANGED <<uploadState, isProcessing, isComplete, timers, toasts>>
           /\ Status' = Status ]_vars

\* "download all" was clicked in status Complete
C7_Witness ==
  /\ lastEvent.kind = "downloadAll"
  /\ Status = "Complete"
  /\ timers = <<>>
  /\ NumSuccess(toasts) = 1

OtherType(type) == CHOOSE t \in Types : t # type

\* C8: an upload event carrying a file replaces only its own slot: the other
\* slot, the status and the pending timers are unchanged, and exactly one
\* non-destructive toast naming the file is emitted, in every status.
C8_UploadFrame ==
  [][ UploadStep =>
        LET type == lastEvent'.type
            file == lastEvent'.files[1]
        IN /\ uploadState'[type] = file
           /\ uploadState'[OtherType(type)] = uploadState[OtherType(type)]
           /\ isProcessing' = isProcessing
           /\ isComplete' = isComplete
           /\ Status' = Status
           /\ timers' = timers
           /\ Len(toasts') = Len(toasts) + 1
           /\ SubSeq(toasts', 1, Len(toasts)) = toasts
           /\ toasts'[Len(toasts')].variant = "default"
           /\ toasts'[Len(toasts')].title = "File uploaded successfully"
           /\ toasts'[Len(toasts')].description = file.name \o " has been uploaded." ]_vars

\* a file was dropped on the template slot during Processing, the excel slot
\* kept its file and the last toast names the dropped file
C8_Witness ==
  /\ lastEvent.kind = "drop"
  /\ lastEvent.type = "template"
  /\ Len(lastEvent.files) = 2
  /\ Status = "Processing"
  /\ Len(timers) = 1
  /\ uploadState.template = lastEvent.files[1]
  /\ Present("excel")
  /\ toasts[Len(toasts)] = UploadToast(lastEvent.files[1])

\* C9: with generation invoked only by clicking the enabled action control,
\* no failure ("Missing files", destructive) toast is ever emitted.
C9_NoFailureThroughUI ==
  \A i \in 1..Len(toasts) :
    /\ toasts[i].variant # "destructive"
    /\ toasts[i] # MissingFilesToast

\* the action control was clicked and the sink holds no failure toast
C9_Witness ==
  /\ lastEvent.kind = "click"
  /\ Status = "Processing"
  /\ NumFailure(toasts) = 0

\* C10: under fairness of time passing and of the timer callback, every
\* generation that enters Processing eventually reaches Complete, whatever
\* uploads happen meanwhile.
C10_EventuallyComplete ==
  (Status = "Processing") ~> (Status = "Complete")

\* a file was replaced during Processing while the timer is due
C10_Witness ==
  /\ Status = "Processing"
  /\ lastEvent.kind \in UploadKinds
  /\ lastEvent.files # <<>>
  /\ timers = <<0>>

\* C11: a drop or selection event uses only the first file of its list: with
\* a non-empty list the slot becomes the file at index 0 whatever follows it;
\* with an empty list the event changes no state and emits no toast.
C11_FirstFileOnly ==
  [][ lastEvent'.kind \in UploadKinds =>
        LET type == lastEvent'.type
            files == lastEvent'.files
        IN IF files # <<>>
           THEN /\ uploadState' = [uploadState EXCEPT ![type] = files[1]]
                /\ toasts' = Append(toasts, UploadToast(files[1]))
                /\ UNCHANGED <<isProcessing, isComplete, timers>>
           ELSE UNCHANGED <<uploadState, isProcessing, isComplete, timers, toasts>> ]_vars

\* two different files were selected at once and the slot holds the first
C11_Witness ==
  /\ lastEvent.kind = "select"
  /\ Len(lastEvent.files) = 2
  /\ lastEvent.files[1] # lastEvent.files[2]
  /\ uploadState[lastEvent.type] = lastEvent.files[1]
  /\ toasts[Len(toasts)] = UploadToast(lastEvent.files[1])

\* C12: isProcessing and isComplete are never both true, so the status is
\* exactly one of Idle (both false), Processing (isProcessing only) and
\* Complete (isComplete only).
C12_FlagsExclusive ==
  /\ ~(isProcessing /\ isComplete)
  /\ (Status = "Idle") <=> (~isProcessing /\ ~isComplete)
  /\ (Status = "Processing") <=> (isProcessing /\ ~isComplete)
  /\ (Status = "Complete") <=> (~isProcessing /\ isComplete)

\* the timer callback has just run: isComplete set, isProcessing cleared
C12_Witness ==
  /\ lastEvent.kind = "timeout"
  /\ isComplete
  /\ ~isProcessing

\* C13: whenever status is Processing or Complete both slots are filled, and
\* no step empties a slot that was filled.
C13_SlotsStayFilled ==
  /\ [](Status \in {"Processing", "Complete"} => BothPresent)
  /\ [][ \A type \in Types : Present(type) => uploadState'[type] # Null ]_vars

\* handleGenerate was called directly and started processing: both slots filled
C13_Witness ==
  /\ lastEvent.kind = "invoke"
  /\ Status = "Processing"
  /\ BothPresent

\* generation attempts started so far: each is still pending or has completed
AttemptsStarted == Len(timers) + NumSuccess(toasts)

\* C14: with generation invoked only through the enabled action control, at
\* most one generation attempt is ever started and the success toast is
\* emitted at most once, however many uploads and clicks occur.
C14_AtMostOneGeneration ==
  /\ [](AttemptsStarted <= 1 /\ NumSuccess(toasts) <= 1)
  /\ [][ lastEvent'.kind = "click" =>
           /\ AttemptsStarted = 0
           /\ AttemptsStarted' = 1 ]_vars

\* the one generation completed and a file was uploaded afterwards
C14_Witness ==
  /\ isComplete
  /\ AttemptsStarted = 1
  /\ NumSuccess(toasts) = 1
  /\ Len(uploads) = 3
  /\ lastEvent.kind = "drop"
  /\ toasts[Len(toasts) - 1] = SuccessToast

=============================================================================
